---- MODULE Spec2Model ----
(***************************************************************************)
(* A model of the kptncook exporter: the recipe data model (recipe.py),    *)
(* the quantity / ingredient / filename formatting of the PDF generator    *)
(* (pdf_generator.py), the image downloader (image_downloader.py), the API *)
(* client (api_client.py), the authentication (auth.py) and the batch run  *)
(* of main (main.py).                                                      *)
(*                                                                         *)
(* Python strings are sequences of one-character strings; a character that *)
(* is not ASCII is written by its code point ("U+00E4").  A JSON object is *)
(* a record whose fields are each absent, null or a value; Python's None   *)
(* is Nul.  A raised exception is the value Raise(kind).                   *)
(***************************************************************************)
EXTENDS Integers, Naturals, Sequences, FiniteSets, TLC

VARIABLES
    fn,               \* the function a pure-function run applies
    arg,              \* its argument
    ret,              \* its result
    called,           \* whether it has been applied
    pc,               \* main: the position of the run
    env,              \* main: which environment variables are set
    access_token,     \* KtpncookAuth.access_token
    loginRet,         \* main: what login_from_env returned ("none" before)
    favorites,        \* main: the favorites list
    detailed_recipes, \* main: the recipes fetched so far
    idx,              \* main: the loop index of the running loop
    disk,             \* ImageDownloader: the files of the download directory
    all_images,       \* main: recipe identifier -> image map
    exportDir,        \* PDFGenerator: the files of the export directory
    generated_files,  \* main: the paths generate_all_recipe_pdfs collected
    used_images,      \* main: per rendered recipe, the image map it was given
    returned_maps,    \* main: per recipe, what download_recipe_images returned
    log,              \* counters of the I/O performed
    last              \* the last download_image call and its outcome

vars == <<fn, arg, ret, called, pc, env, access_token, loginRet, favorites,
          detailed_recipes, idx, disk, all_images, exportDir, generated_files,
          used_images, returned_maps, log, last>>

pureVars == <<fn, arg, ret, called>>
runVars == <<pc, env, access_token, loginRet, favorites, detailed_recipes, idx,
             all_images, exportDir, generated_files, used_images, returned_maps,
             log>>
diskVars == <<disk, last>>

(***************************************************************************)
(* Python values                                                           *)
(***************************************************************************)
Abs == [p |-> "absent"]
Nul == [p |-> "null"]
Val(x) == [p |-> "val", v |-> x]

IsAbs(x) == x.p = "absent"
IsNul(x) == x.p = "null"
IsVal(x) == x.p = "val"

Raise(kind) == [p |-> "raise", kind |-> kind]
IsRaise(x) == x.p = "raise"

\* dict.get(key, default): the field's value, null included, or the default
DictGet(field, default) == IF IsAbs(field) THEN default ELSE field

Min(a, b) == IF a < b THEN a ELSE b
Range(s) == {s[i] : i \in 1..Len(s)}

\* the sequences over S of length at most n
SeqsUpTo(S, n) == UNION {[1..k -> S] : k \in 0..n}

RECURSIVE Rep(_, _)
Rep(c, n) == IF n = 0 THEN <<>> ELSE <<c>> \o Rep(c, n - 1)

(***************************************************************************)
(* Bounds                                                                  *)
(***************************************************************************)
MaxSteps == 2
MaxTitleLen == 2
MaxFavorites == 2
MaxCalls == 3
MaxQuantity == 3

(***************************************************************************)
(* recipe.py: Ingredient                                                   *)
(***************************************************************************)
UnknownIngredient ==
    <<"U","n","k","n","o","w","n"," ","i","n","g","r","e","d","i","e","n","t">>
Unknown == <<"U","n","k","n","o","w","n">>
UntitledRecipe ==
    <<"U","n","t","i","t","l","e","d"," ","R","e","c","i","p","e">>

\* the {} default of data.get("unit", {})
EmptyUnit == Val([quantity |-> Abs, measure |-> Abs])
\* the {} default of data.get("ingredient", {})
EmptyIngredientObj == Val([title |-> Abs, _id |-> Abs])
\* the {} default of .get("_id", {})
EmptyId == Val([oid |-> Abs])

Ingredient(title, quantity, measure, ingredient_id) ==
    [p |-> "ok", title |-> title, quantity |-> quantity, measure |-> measure,
     ingredient_id |-> ingredient_id]

\* lines 26-31: the name, by the presence of a direct "title" key
IngredientTitle(data, ingredient) ==
    IF ~IsAbs(data.title)
    THEN data.title
    ELSE IF IsNul(ingredient) THEN Raise("AttributeError")
         ELSE DictGet(ingredient.v.title, Val(UnknownIngredient))

\* lines 35-36: quantity and measure
IngredientQuantity(data, unit) == DictGet(unit.v.quantity, Nul)
IngredientMeasure(data, unit) == DictGet(unit.v.measure, Nul)

\* line 37: the identifier
IngredientId(data, ingredient) == DictGet(data.ingredientId, Nul)

Ingredient_from_api_data(data) ==
    LET unit == DictGet(data.unit, EmptyUnit)
        ingredient == DictGet(data.ingredient, EmptyIngredientObj)
        title == IngredientTitle(data, ingredient)
    IN  IF IsRaise(title) THEN title
        ELSE IF IsNul(unit) THEN Raise("AttributeError")
        ELSE Ingredient(title, IngredientQuantity(data, unit),
                        IngredientMeasure(data, unit),
                        IngredientId(data, ingredient))

(***************************************************************************)
(* recipe.py: RecipeStep                                                   *)
(***************************************************************************)
RecipeStep(title, ingredients, image_url, step_number) ==
    [p |-> "ok", title |-> title, ingredients |-> ingredients,
     image_url |-> image_url, step_number |-> step_number]

\* the first exception among the parsed elements, if any
FirstRaise(s) ==
    IF \E i \in 1..Len(s) : IsRaise(s[i])
    THEN s[CHOOSE i \in 1..Len(s) :
               IsRaise(s[i]) /\ \A j \in 1..(i - 1) : ~IsRaise(s[j])]
    ELSE [p |-> "ok"]

\* lines 53-55
StepIngredients(data) ==
    LET src == DictGet(data.ingredients, Val(<<>>))
    IN  IF IsNul(src) THEN Raise("TypeError")
        ELSE LET parsed == [i \in 1..Len(src.v) |->
                               Ingredient_from_api_data(src.v[i])]
             IN  IF IsRaise(FirstRaise(parsed)) THEN FirstRaise(parsed)
                 ELSE [p |-> "ok", v |-> parsed]

\* lines 58-60
StepImageUrl(data) ==
    IF IsAbs(data.image) THEN Nul
    ELSE IF IsNul(data.image) THEN Raise("TypeError")
    ELSE IF IsAbs(data.image.v.url) THEN Nul
    ELSE data.image.v.url

RecipeStep_from_api_data(data, step_number) ==
    LET ings == StepIngredients(data)
        url == StepImageUrl(data)
    IN  IF IsRaise(ings) THEN ings
        ELSE IF IsRaise(url) THEN url
        ELSE RecipeStep(DictGet(data.title, Val(<<>>)), ings.v, url,
                        step_number)

(***************************************************************************)
(* recipe.py: Recipe                                                       *)
(***************************************************************************)
Recipe(identifier, title, preparation_time, cooking_time, steps, recipe_type, author_comment, all_ingredients) ==
    [p |-> "ok", identifier |-> identifier, title |-> title,
     preparation_time |-> preparation_time, cooking_time |-> cooking_time,
     steps |-> steps, recipe_type |-> recipe_type,
     author_comment |-> author_comment, all_ingredients |-> all_ingredients]

\* the zero-based numbering a wrong enumerate start would give
StepNumberZeroBased(stepsData, i) == i - 1

\* line 89: enumerate(..., 1)
StepNumber(stepsData, i) == i

\* lines 86-91
RecipeSteps(data) ==
    LET src == DictGet(data.steps, Val(<<>>))
    IN  IF IsNul(src) THEN Raise("TypeError")
        ELSE LET parsed == [i \in 1..Len(src.v) |->
                               RecipeStep_from_api_data(src.v[i],
                                                        StepNumber(src.v, i))]
             IN  IF IsRaise(FirstRaise(parsed)) THEN FirstRaise(parsed)
                 ELSE [p |-> "ok", v |-> parsed]

\* lines 101-107: one entry of the global ingredients list
GlobalIngredient(ing_data) ==
    LET ingredient_obj == DictGet(ing_data.ingredient, EmptyIngredientObj)
    IN  IF IsNul(ingredient_obj) THEN Raise("AttributeError")
        ELSE LET id == DictGet(ingredient_obj.v._id, EmptyId)
             IN  IF IsNul(id) THEN Raise("AttributeError")
                 ELSE Ingredient(DictGet(ingredient_obj.v.title, Val(Unknown)),
                                 DictGet(ing_data.quantity, Nul),
                                 DictGet(ing_data.measure, Nul),
                                 DictGet(id.v.oid, Nul))

\* lines 99-107
RecipeAllIngredients(data) ==
    LET src == DictGet(data.ingredients, Val(<<>>))
    IN  IF IsNul(src) THEN Raise("TypeError")
        ELSE LET parsed == [i \in 1..Len(src.v) |-> GlobalIngredient(src.v[i])]
             IN  IF IsRaise(FirstRaise(parsed)) THEN FirstRaise(parsed)
                 ELSE [p |-> "ok", v |-> parsed]

\* data["_id"]["$oid"]: what indexing instead of .get would do
RecipeIdentifierIndexed(data) ==
    IF IsAbs(data._id) THEN Raise("KeyError")
    ELSE IF IsNul(data._id) THEN Raise("TypeError")
    ELSE IF IsAbs(data._id.v.oid) THEN Raise("KeyError")
    ELSE data._id.v.oid

\* line 110: data.get("_id", {}).get("$oid", "")
RecipeIdentifier(data) ==
    LET id == DictGet(data._id, EmptyId)
    IN  IF IsNul(id) THEN Raise("AttributeError")
        ELSE DictGet(id.v.oid, Val(<<>>))

Recipe_from_api_data(data) ==
    LET steps == RecipeSteps(data)
        ings == RecipeAllIngredients(data)
        id == RecipeIdentifier(data)
    IN  IF IsRaise(steps) THEN steps
        ELSE IF IsRaise(ings) THEN ings
        ELSE IF IsRaise(id) THEN id
        ELSE Recipe(id,
                    DictGet(data.title, Val(UntitledRecipe)),
                    DictGet(data.preparationTime, Val(0)),
                    DictGet(data.cookingTime, Val(0)),
                    steps.v,
                    DictGet(data.rtype, Nul),
                    DictGet(data.authorComment, Nul),
                    ings.v)

\* lines 120-122: int + int; None in either raises
get_total_time(recipe) ==
    IF IsNul(recipe.preparation_time) \/ IsNul(recipe.cooking_time)
    THEN Raise("TypeError")
    ELSE Val(recipe.preparation_time.v + recipe.cooking_time.v)

(***************************************************************************)
(* pdf_generator.py: format_quantity                                       *)
(*                                                                         *)
(* A quantity is a rational [n, d] with d > 0.  Doubling a float is exact, *)
(* and Fraction(doubled) is the exact value in lowest terms.               *)
(***************************************************************************)
RECURSIVE Gcd(_, _)
Gcd(a, b) == IF b = 0 THEN a ELSE Gcd(b, a % b)

Frac(n, d) == LET g == Gcd(n, d) IN [n |-> n \div g, d |-> d \div g]

Abs2(x) == IF x < 0 THEN -x ELSE x

\* |x - y| <= |u - y| for rationals
NotFarther(x, u, y) ==
    Abs2(x.n * y.d - y.n * x.d) * u.d <= Abs2(u.n * y.d - y.n * u.d) * x.d

Digit == <<"0", "1", "2", "3", "4", "5", "6", "7", "8", "9">>

\* str(int) of a natural number
RECURSIVE IntStr(_)
IntStr(n) == IF n < 10 THEN <<Digit[n + 1]>>
             ELSE IntStr(n \div 10) \o <<Digit[(n % 10) + 1]>>

\* str.rstrip(chars)
RECURSIVE rstrip(_, _)
rstrip(s, chars) ==
    IF Len(s) > 0 /\ s[Len(s)] \in chars
    THEN rstrip(SubSeq(s, 1, Len(s) - 1), chars)
    ELSE s

\* line 94: the largest denominator kept
MaxDenominator == 16

\* the continued-fraction loop of Fraction.limit_denominator
RECURSIVE Convergents(_, _, _, _, _, _, _)
Convergents(p0, q0, p1, q1, n, d, max) ==
    LET a == n \div d
        q2 == q0 + a * q1
    IN  IF q2 > max THEN [p0 |-> p0, q0 |-> q0, p1 |-> p1, q1 |-> q1]
        ELSE Convergents(p1, q1, p0 + a * p1, q2, d, n - a * d, max)

\* a search that stops at the last convergent, without the semiconvergent
limit_denominator_convergent(x, max) ==
    IF x.d <= max THEN x
    ELSE LET c == Convergents(0, 1, 1, 0, x.n, x.d, max)
         IN  Frac(c.p1, c.q1)

\* line 94: Fraction.limit_denominator(max_denominator)
limit_denominator(x, max) ==
    IF x.d <= max THEN x
    ELSE LET c == Convergents(0, 1, 1, 0, x.n, x.d, max)
             k == (max - c.q0) \div c.q1
             bound1 == Frac(c.p0 + k * c.p1, c.q0 + k * c.q1)
             bound2 == Frac(c.p1, c.q1)
         IN  IF NotFarther(bound2, bound1, x) THEN bound2 ELSE bound1

\* line 97: abs(float(frac) - doubled) < 0.01
CloseEnough(frac, doubled) ==
    100 * Abs2(frac.n * doubled.d - doubled.n * frac.d) < frac.d * doubled.d

\* line 111: "{:.1f}" rounds the exact value to tenths, half to even
Tenths(x) ==
    LET t == (10 * x.n) \div x.d
        r == (10 * x.n) % x.d
    IN  IF 2 * r > x.d \/ (2 * r = x.d /\ t % 2 = 1) THEN t + 1 ELSE t

\* line 111
OneDecimal(x) ==
    LET t == Tenths(x)
        s == IntStr(t \div 10) \o <<".">> \o <<Digit[(t % 10) + 1]>>
    IN  rstrip(rstrip(s, {"0"}), {"."})

\* lines 98-108
FractionStr(frac) ==
    IF frac.n > frac.d
    THEN LET whole == frac.n \div frac.d
             remainder == frac.n % frac.d
         IN  IF remainder = 0 THEN IntStr(whole)
             ELSE IntStr(whole) \o <<" ">> \o IntStr(remainder) \o <<"/">>
                  \o IntStr(frac.d)
    ELSE IntStr(frac.n) \o <<"/">> \o IntStr(frac.d)

\* lines 84-111
format_quantity(quantity) ==
    LET doubled == Frac(quantity.n * 2, quantity.d)
    IN  IF doubled.d = 1 THEN IntStr(doubled.n)
        ELSE LET frac == limit_denominator(doubled, MaxDenominator)
             IN  IF CloseEnough(frac, doubled) THEN FractionStr(frac)
                 ELSE OneDecimal(doubled)

(***************************************************************************)
(* pdf_generator.py: format_ingredient                                     *)
(***************************************************************************)
None == <<"N", "o", "n", "e">>

\* str() of a string or None inside an f-string
PyStr(x) == IF IsNul(x) THEN None ELSE x.v

\* the test "is not None"
Present(x) == ~IsNul(x)

\* the truth value of an Optional[float]: None and 0 are false
QuantityTruthy(x) == ~IsNul(x) /\ x.v.n # 0

\* the truth value of an Optional[str]: None and "" are false
MeasureTruthy(x) == ~IsNul(x) /\ Len(x.v) > 0

\* lines 113-122
format_ingredient(ingredient) ==
    IF QuantityTruthy(ingredient.quantity) /\ MeasureTruthy(ingredient.measure)
    THEN format_quantity(ingredient.quantity.v) \o <<" ">>
         \o PyStr(ingredient.measure) \o <<" ">> \o PyStr(ingredient.title)
    ELSE IF QuantityTruthy(ingredient.quantity)
    THEN format_quantity(ingredient.quantity.v) \o <<" ">>
         \o PyStr(ingredient.title)
    ELSE PyStr(ingredient.title)

(***************************************************************************)
(* pdf_generator.py: generate_recipe_filename                              *)
(***************************************************************************)
AsciiLower ==
    {"a", "b", "c", "d", "e", "f", "g", "h", "i", "j", "k", "l", "m",
     "n", "o", "p", "q", "r", "s", "t", "u", "v", "w", "x", "y", "z"}
AsciiUpper ==
    {"A", "B", "C", "D", "E", "F", "G", "H", "I", "J", "K", "L", "M",
     "N", "O", "P", "Q", "R", "S", "T", "U", "V", "W", "X", "Y", "Z"}
AsciiAlnum == AsciiLower \cup AsciiUpper \cup Range(Digit)
\* a-umlaut and the arabic-indic digit three: str.isalnum() is true of both
NonAsciiAlnum == {"U+00E4", "U+0663"}
Punctuation == {"!", "?", "/", "."}

\* str.isalnum() of one character
isalnum(c) == c \in AsciiAlnum \cup NonAsciiAlnum

\* an ASCII-only test, as [A-Za-z0-9] would be
isalnum_ascii(c) == c \in AsciiAlnum

\* line 233: the characters kept
KeptInFilename(c) == isalnum(c) \/ c \in {" ", "-", "_"}

\* "".join(c for c in s if keep(c))
RECURSIVE FilterChars(_)
FilterChars(s) ==
    IF s = <<>> THEN <<>>
    ELSE (IF KeptInFilename(Head(s)) THEN <<Head(s)>> ELSE <<>>)
         \o FilterChars(Tail(s))

\* str.replace(' ', '_')
ReplaceSpaces(s) == [i \in 1..Len(s) |-> IF s[i] = " " THEN "_" ELSE s[i]]

\* line 237: the longest name kept
MaxFilenameLen == 50

\* a truncation to one character more
TruncateOffByOne(s) ==
    IF Len(s) > MaxFilenameLen THEN SubSeq(s, 1, MaxFilenameLen + 1) ELSE s

\* lines 237-238
Truncate(s) == IF Len(s) > MaxFilenameLen THEN SubSeq(s, 1, MaxFilenameLen) ELSE s

\* lines 233-238: the name before the extension
SafeTitle(title) ==
    Truncate(ReplaceSpaces(rstrip(FilterChars(title), {" "})))

PdfExt == <<".", "p", "d", "f">>

\* lines 230-240; iterating over a title of None raises
generate_recipe_filename(recipe) ==
    IF IsNul(recipe.title) THEN Raise("TypeError")
    ELSE Val(SafeTitle(recipe.title.v) \o PdfExt)

(***************************************************************************)
(* Runs of one function: the argument is drawn in the initial state and    *)
(* the function is applied once.                                           *)
(***************************************************************************)
NoFile == [p |-> "nofile"]
NoCall == [p |-> "nocall"]
NoLog == [login |-> 0, favorites |-> 0, details |-> 0, images |-> 0, pdfs |-> 0]

\* the batch run has not been started
RunIdle ==
    /\ pc = "idle"
    /\ env = [key |-> TRUE, credentials |-> TRUE]
    /\ access_token = Nul
    /\ loginRet = "none"
    /\ favorites = <<>>
    /\ detailed_recipes = <<>>
    /\ idx = 0
    /\ all_images = <<>>
    /\ exportDir = <<>>
    /\ generated_files = <<>>
    /\ used_images = <<>>
    /\ returned_maps = <<>>
    /\ log = NoLog

DiskIdle == disk = <<>> /\ last = NoCall

Quantity(n, d) == [n |-> n, d |-> d]

\* hundredths (the decimals the service sends), thirds and 256ths (floats
\* that binary represents exactly), up to MaxQuantity
QuantityDenominators == {3, 100, 256}
Quantities ==
    {Quantity(k, d) : k \in 0..(MaxQuantity * 256), d \in QuantityDenominators}
    \cap {q \in [n : 0..(MaxQuantity * 256), d : QuantityDenominators] :
            q.n <= MaxQuantity * q.d}

Salz == <<"S", "a", "l", "z">>
Gramm == <<"g">>

FormatIngredients ==
    {Ingredient(Val(Salz), q, m, Nul) :
        q \in {Nul} \cup {Val(x) : x \in {Quantity(0, 100), Quantity(25, 100),
                                           Quantity(75, 100), Quantity(1, 3),
                                           Quantity(100, 100)}},
        m \in {Nul, Val(Gramm)}}

InitFormat ==
    /\ fn \in {"format_quantity", "format_ingredient"}
    /\ arg \in IF fn = "format_quantity" THEN Quantities ELSE FormatIngredients
    /\ ret = Nul
    /\ called = FALSE
    /\ RunIdle
    /\ DiskIdle

CallFormatQuantity ==
    /\ fn = "format_quantity"
    /\ ~called
    /\ ret' = format_quantity(arg)
    /\ called' = TRUE
    /\ UNCHANGED <<fn, arg, runVars, diskVars>>

CallFormatIngredient ==
    /\ fn = "format_ingredient"
    /\ ~called
    /\ ret' = format_ingredient(arg)
    /\ called' = TRUE
    /\ UNCHANGED <<fn, arg, runVars, diskVars>>

NextFormat == CallFormatQuantity \/ CallFormatIngredient

SpecFormat == InitFormat /\ [][NextFormat]_vars

(***************************************************************************)
(* Runs of generate_recipe_filename                                        *)
(***************************************************************************)
FilenameAlphabet ==
    {"a", "Z", "7"} \cup NonAsciiAlnum \cup Punctuation \cup {" ", "-", "_"}

\* every short title, and titles around the length at which names are cut
Titles ==
    SeqsUpTo(FilenameAlphabet, MaxTitleLen)
    \cup {pre \o Rep(c, n) \o suf :
            pre \in SeqsUpTo({" ", "!", "Z"}, 1),
            c \in {"a", " ", "U+00E4"},
            n \in (MaxFilenameLen - 2)..(MaxFilenameLen + 2),
            suf \in SeqsUpTo({" ", "!", "7", "U+0663"}, 1)}

InitFilename ==
    /\ fn = "generate_recipe_filename"
    /\ arg \in {[title |-> Val(t)] : t \in Titles}
    /\ ret = Nul
    /\ called = FALSE
    /\ RunIdle
    /\ DiskIdle

CallGenerateRecipeFilename ==
    /\ fn = "generate_recipe_filename"
    /\ ~called
    /\ ret' = generate_recipe_filename(arg)
    /\ called' = TRUE
    /\ UNCHANGED <<fn, arg, runVars, diskVars>>

NextFilename == CallGenerateRecipeFilename

SpecFilename == InitFilename /\ [][NextFilename]_vars

(***************************************************************************)
(* Runs of the parsers of recipe.py                                        *)
(***************************************************************************)
Mehl == <<"M", "e", "h", "l">>
EL == <<"E", "L">>
Mix == <<"M", "i", "x">>
Bake == <<"B", "a", "k", "e">>
Url1 == <<"h", "/", "a", ".", "j", "p", "g">>
Url2 == <<"h", "/", "b", ".", "p", "n", "g">>
Url3 == <<"h", "/", "c">>

UnitObjs ==
    {Val([quantity |-> a, measure |-> b]) :
        a \in {Abs, Val(Quantity(50, 100))}, b \in {Abs, Val(Gramm)}}

IngredientObjs ==
    {Val([title |-> a, _id |-> b]) :
        a \in {Abs, Val(Mehl)},
        b \in {Abs, Nul, Val([oid |-> Abs]), Val([oid |-> Val(<<"i", "1">>)])}}

ApiIngredients ==
    [title : {Abs, Val(Salz)},
     unit : {Abs, Nul} \cup UnitObjs,
     ingredient : {Abs, Nul} \cup IngredientObjs,
     quantity : {Abs, Val(Quantity(1, 1))},
     measure : {Abs, Val(EL)},
     ingredientId : {Abs, Val(<<"i", "9">>)}]

\* a step ingredient in the step shape, and one in the main shape
StepShapeIngredient ==
    [title |-> Val(Salz),
     unit |-> Val([quantity |-> Val(Quantity(50, 100)), measure |-> Val(Gramm)]),
     ingredient |-> Abs, quantity |-> Abs, measure |-> Abs,
     ingredientId |-> Val(<<"i", "9">>)]
MainShapeIngredient ==
    [title |-> Abs, unit |-> Abs,
     ingredient |-> Val([title |-> Val(Mehl),
                         _id |-> Val([oid |-> Val(<<"i", "1">>)])]),
     quantity |-> Val(Quantity(1, 1)), measure |-> Val(EL),
     ingredientId |-> Abs]

ApiStep(title, ingredients, image, number) ==
    [title |-> title, ingredients |-> ingredients, image |-> image,
     number |-> number]

\* number stands for any numeric field of a source step record
StepSamples ==
    {ApiStep(Abs, Abs, Abs, Abs),
     ApiStep(Val(Mix), Val(<<StepShapeIngredient, MainShapeIngredient>>),
             Val([url |-> Val(Url1)]), Val(7)),
     ApiStep(Val(Bake), Abs, Val([url |-> Abs]), Val(1)),
     ApiStep(Val(Mix), Abs, Nul, Abs)}

Pasta == <<"P", "a", "s", "t", "a">>
Id1 == <<"r", "1">>

ApiRecipes ==
    [_id : {Abs, Val([oid |-> Abs]), Val([oid |-> Val(Id1)])},
     title : {Abs, Val(Pasta)},
     preparationTime : {Abs, Val(10)},
     cookingTime : {Abs, Val(25)},
     steps : {Abs} \cup {Val(x) : x \in SeqsUpTo(StepSamples, MaxSteps)},
     ingredients : {Abs, Val(<<>>), Val(<<MainShapeIngredient>>),
                    Val(<<MainShapeIngredient, StepShapeIngredient>>)},
     rtype : {Abs, Val(<<"v">>)},
     authorComment : {Abs, Val(<<"o", "k">>)}]

InitParse ==
    /\ fn \in {"Ingredient.from_api_data", "Recipe.from_api_data"}
    /\ arg \in IF fn = "Ingredient.from_api_data" THEN ApiIngredients
               ELSE ApiRecipes
    /\ ret = Nul
    /\ called = FALSE
    /\ RunIdle
    /\ DiskIdle

CallIngredientFromApiData ==
    /\ fn = "Ingredient.from_api_data"
    /\ ~called
    /\ ret' = Ingredient_from_api_data(arg)
    /\ called' = TRUE
    /\ UNCHANGED <<fn, arg, runVars, diskVars>>

CallRecipeFromApiData ==
    /\ fn = "Recipe.from_api_data"
    /\ ~called
    /\ ret' = Recipe_from_api_data(arg)
    /\ called' = TRUE
    /\ UNCHANGED <<fn, arg, runVars, diskVars>>

NextParse == CallIngredientFromApiData \/ CallRecipeFromApiData

SpecParse == InitParse /\ [][NextParse]_vars

(***************************************************************************)
(* Properties of the parsers                                               *)
(***************************************************************************)
\* the identifier under ingredient._id, None when there is none
NestedIngredientId(data) ==
    IF IsVal(data.ingredient) /\ IsVal(data.ingredient.v._id)
    THEN DictGet(data.ingredient.v._id.v.oid, Nul)
    ELSE Nul

\* C6: Ingredient parsing dispatches on a direct "title" key: with the key,
\* the name is the title and quantity and measure come from the nested unit
\* object; without it, the name is ingredient.title, quantity and measure are
\* the record's own direct fields and the identifier is ingredient._id.
C6_IngredientShapes ==
    (fn = "Ingredient.from_api_data" /\ called /\ ~IsRaise(ret)) =>
        IF ~IsAbs(arg.title)
        THEN /\ ret.title = arg.title
             /\ ret.quantity = DictGet(DictGet(arg.unit, EmptyUnit).v.quantity, Nul)
             /\ ret.measure = DictGet(DictGet(arg.unit, EmptyUnit).v.measure, Nul)
        ELSE /\ ret.title = DictGet(DictGet(arg.ingredient, EmptyIngredientObj).v.title,
                                    Val(UnknownIngredient))
             /\ ret.quantity = DictGet(arg.quantity, Nul)
             /\ ret.measure = DictGet(arg.measure, Nul)
             /\ ret.ingredient_id = NestedIngredientId(arg)

\* every step of the record that is present is an object whose image, when
\* present, is an object too: no present field holds null
NoNullField(data) ==
    IsAbs(data.steps) \/
    \A k \in 1..Len(data.steps.v) : ~IsNul(data.steps.v[k].image)

\* the value of a time field, 0 when it is absent
TimeOf(field) == IF IsAbs(field) THEN 0 ELSE field.v

\* C7: Recipe.from_api_data never fails on missing optional fields: whatever
\* subset of the eight fields is absent, construction succeeds, each absent
\* field takes its default ("" / "Untitled Recipe" / 0 / 0 / no steps / no
\* ingredients / None / None) and get_total_time() is the sum of the two times.
C7_MissingFieldsDefault ==
    (fn = "Recipe.from_api_data" /\ called /\ NoNullField(arg)) =>
        /\ ~IsRaise(ret)
        /\ IsAbs(arg._id) => ret.identifier = Val(<<>>)
        /\ IsAbs(arg.title) => ret.title = Val(UntitledRecipe)
        /\ IsAbs(arg.preparationTime) => ret.preparation_time = Val(0)
        /\ IsAbs(arg.cookingTime) => ret.cooking_time = Val(0)
        /\ IsAbs(arg.steps) => ret.steps = <<>>
        /\ IsAbs(arg.ingredients) => ret.all_ingredients = <<>>
        /\ IsAbs(arg.rtype) => ret.recipe_type = Nul
        /\ IsAbs(arg.authorComment) => ret.author_comment = Nul
        /\ get_total_time(ret)
             = Val(TimeOf(arg.preparationTime) + TimeOf(arg.cookingTime))

\* C7's case: a record with none of the eight fields has been parsed
C7_Witness ==
    /\ fn = "Recipe.from_api_data" /\ called
    /\ \A f \in DOMAIN arg : IsAbs(arg[f])
    /\ ret.identifier = Val(<<>>) /\ ret.title = Val(UntitledRecipe)
    /\ get_total_time(ret) = Val(0)

\* C8: the steps of the parsed Recipe are numbered 1..len(steps) in source
\* order whatever numeric field the source steps hold, and step k is built
\* from the k-th source step.
C8_StepNumbers ==
    (fn = "Recipe.from_api_data" /\ called /\ ~IsRaise(ret)) =>
        LET src == IF IsAbs(arg.steps) THEN <<>> ELSE arg.steps.v
        IN  /\ Len(ret.steps) = Len(src)
            /\ \A k \in 1..Len(src) :
                 /\ ret.steps[k].step_number = k
                 /\ ret.steps[k].title = DictGet(src[k].title, Val(<<>>))
                 /\ ret.steps[k].image_url = StepImageUrl(src[k])
                 /\ Len(ret.steps[k].ingredients)
                      = Len(DictGet(src[k].ingredients, Val(<<>>)).v)

\* C8's case: two steps, the first carrying the number 7, the second 1
C8_Witness ==
    /\ fn = "Recipe.from_api_data" /\ called /\ ~IsRaise(ret)
    /\ IsVal(arg.steps) /\ Len(arg.steps.v) = 2
    /\ arg.steps.v[1].number = Val(7) /\ arg.steps.v[2].number = Val(1)
    /\ ret.steps[1].step_number = 1 /\ ret.steps[2].step_number = 2
    /\ ret.steps[1].title # ret.steps[2].title

(***************************************************************************)
(* Properties of the formatters                                            *)
(***************************************************************************)
\* |p/n - d| as a rational over the common denominator n * d.d
Distance(p, n, d) == Frac(Abs2(p * d.d - d.n * n), n * d.d)
Less(x, y) == x.n * y.d < y.n * x.d

\* the closest fraction p/n to d with n <= 16, by exhaustive search; among
\* equally close ones the smallest denominator
ClosestFraction(d) ==
    LET C == {c \in [p : 0..(d.n \div d.d + 1) * MaxDenominator,
                     n : 1..MaxDenominator] :
                c.p \in {(d.n * c.n) \div d.d, (d.n * c.n) \div d.d + 1}}
    IN  CHOOSE c \in C :
            \A e \in C :
                \/ Less(Distance(c.p, c.n, d), Distance(e.p, e.n, d))
                \/ /\ Distance(c.p, c.n, d) = Distance(e.p, e.n, d)
                   /\ (c.n < e.n \/ (c.n = e.n /\ c.p <= e.p))

\* d to one decimal place: the tenth closest to d
ClosestTenth(d) ==
    CHOOSE t \in 0..(10 * (d.n \div d.d + 1)) :
        \A u \in 0..(10 * (d.n \div d.d + 1)) :
            \/ Less(Distance(t, 10, d), Distance(u, 10, d))
            \/ t = u
            \/ (Distance(t, 10, d) = Distance(u, 10, d) /\ t % 2 = 0)

\* the reference algorithm of format_quantity
ReferenceFormat(q) ==
    LET d == Frac(2 * q.n, q.d)
        c == ClosestFraction(d)
        w == c.p \div c.n
        r == c.p % c.n
        t == ClosestTenth(d)
    IN  IF d.d = 1 THEN IntStr(d.n)
        ELSE IF Less(Distance(c.p, c.n, d), Frac(1, 100))
        THEN IF c.p > c.n
             THEN IF r = 0 THEN IntStr(w)
                  ELSE IntStr(w) \o <<" ">> \o IntStr(r) \o <<"/">> \o IntStr(c.n)
             ELSE IntStr(c.p) \o <<"/">> \o IntStr(c.n)
        ELSE IF t % 10 = 0 THEN IntStr(t \div 10)
             ELSE IntStr(t \div 10) \o <<".">> \o IntStr(t % 10)

\* C9: format_quantity(q) is the reference algorithm's result: the integer
\* 2q when whole; else the closest fraction with denominator <= 16 when it is
\* within 0.01, as a mixed number or a simple fraction; else 2q to one
\* decimal place without a trailing ".0".  0.75 gives "1 1/2", 0.25 "1/2",
\* 1.0 "2" and 0.33 "2/3".
C9_FormatQuantityReference ==
    /\ (fn = "format_quantity" /\ called) => ret = ReferenceFormat(arg)
    /\ format_quantity(Quantity(75, 100)) = <<"1", " ", "1", "/", "2">>
    /\ format_quantity(Quantity(25, 100)) = <<"1", "/", "2">>
    /\ format_quantity(Quantity(100, 100)) = <<"2">>
    /\ format_quantity(Quantity(33, 100)) = <<"2", "/", "3">>

\* C9's case: 0.75 has been formatted as the mixed number "1 1/2"
C9_Witness ==
    /\ fn = "format_quantity" /\ called
    /\ arg = Quantity(75, 100)
    /\ ret = <<"1", " ", "1", "/", "2">>

\* C10: format_ingredient chooses by the presence of the fields: quantity and
\* measure both present (a quantity of 0 included) gives "{q} {measure}
\* {title}", quantity alone "{q} {title}", anything else the title alone.
C10_FormatIngredientByPresence ==
    (fn = "format_ingredient" /\ called) =>
        ret = IF Present(arg.quantity) /\ Present(arg.measure)
              THEN format_quantity(arg.quantity.v) \o <<" ">> \o arg.measure.v
                   \o <<" ">> \o arg.title.v
              ELSE IF Present(arg.quantity)
              THEN format_quantity(arg.quantity.v) \o <<" ">> \o arg.title.v
              ELSE arg.title.v

\* C4 as stated: the name before ".pdf" has at most 50 characters, all of
\* them in [A-Za-z0-9_-] (spaces having become "_").
C4_FilenameAsciiOnly ==
    (fn = "generate_recipe_filename" /\ called) =>
        LET name == SubSeq(ret.v, 1, Len(ret.v) - Len(PdfExt))
        IN  /\ Len(name) <= MaxFilenameLen
            /\ \A i \in 1..Len(name) : isalnum_ascii(name[i]) \/ name[i] \in {"_", "-"}

\* C4 amended: the name before ".pdf" has at most 50 characters, each of them
\* a character str.isalnum() accepts (a letter or digit, ASCII or not), "_"
\* or "-"; no space is left.
C4_FilenameSafe ==
    (fn = "generate_recipe_filename" /\ called) =>
        LET name == SubSeq(ret.v, 1, Len(ret.v) - Len(PdfExt))
        IN  /\ ret.v = name \o PdfExt
            /\ Len(name) <= MaxFilenameLen
            /\ \A i \in 1..Len(name) :
                 /\ name[i] # " "
                 /\ name[i] \in AsciiAlnum \cup NonAsciiAlnum \cup {"_", "-"}

\* C4's case: a title with a space, a non-ASCII letter and more than 50 kept
\* characters has been cut to 50
C4_Witness ==
    /\ fn = "generate_recipe_filename" /\ called
    /\ " " \in Range(arg.title.v) /\ "U+00E4" \in Range(arg.title.v)
    /\ Len(FilterChars(arg.title.v)) > MaxFilenameLen
    /\ Len(ret.v) = MaxFilenameLen + Len(PdfExt)

(***************************************************************************)
(* image_downloader.py                                                     *)
(*                                                                         *)
(* disk maps each file name of the download directory that exists to what  *)
(* the file holds: the bytes served for a URL, complete or cut short.      *)
(* A URL is modelled by its path.                                          *)
(***************************************************************************)
Exists(d, filename) == filename \in DOMAIN d

\* the index of the last c in s, 0 when there is none
LastIndexOf(s, c) ==
    IF c \in Range(s) THEN CHOOSE i \in 1..Len(s) :
                               s[i] = c /\ \A j \in (i + 1)..Len(s) : s[j] # c
    ELSE 0

\* line 47: os.path.splitext(path)[1] or '.jpg'
Extension(url) ==
    LET slash == LastIndexOf(url, "/")
        dot == LastIndexOf(url, ".")
    IN  IF dot > slash + 1 THEN SubSeq(url, dot, Len(url))
        ELSE <<".", "j", "p", "g">>

\* line 50: hashlib.md5(url.encode()).hexdigest()[:8], a digest per URL
\* (the digests of the URLs used here differ)
UrlHash(url) ==
    CASE url = Url1 -> <<"9", "0", "7", "4", "4", "8", "2", "a">>
      [] url = Url2 -> <<"e", "0", "7", "a", "6", "7", "1", "6">>
      [] OTHER -> <<"a", "a", "1", "8", "4", "4", "4", "3">>

\* {step_number:02d}
TwoDigits(n) == IF n < 10 THEN <<"0">> \o IntStr(n) ELSE IntStr(n)

\* lines 32-54
get_image_filename(url, recipe_id, step_number) ==
    recipe_id \o <<"_", "s", "t", "e", "p">> \o TwoDigits(step_number)
    \o <<"_">> \o UrlHash(url) \o Extension(url)

\* what a download attempt can meet: success; a failed request or status
\* (RequestException before the file is opened); a connection lost while the
\* body is streamed (RequestException after part of it was written); a file
\* that cannot be opened (IOError)
Outcomes == {"ok", "request_error", "stream_error", "io_error"}

Complete(url) == [url |-> url, bytes |-> "complete"]
CutShort(url) == [url |-> url, bytes |-> "partial"]

DownloadResult(d, result, requested) ==
    [disk |-> d, result |-> result, requested |-> requested]

\* lines 73-88: the request, the write and the two handlers
Fetch(d, url, filename, outcome) ==
    CASE outcome = "ok" ->
            DownloadResult((filename :> Complete(url)) @@ d, TRUE, TRUE)
      [] outcome = "stream_error" ->
            DownloadResult((filename :> CutShort(url)) @@ d, FALSE, TRUE)
      [] OTHER -> DownloadResult(d, FALSE, TRUE)

\* a download that never looks for the file
download_image_unconditional(d, url, filename, outcome) ==
    Fetch(d, url, filename, outcome)

\* lines 56-88
download_image(d, url, filename, outcome) ==
    IF Exists(d, filename) THEN DownloadResult(d, TRUE, FALSE)
    ELSE Fetch(d, url, filename, outcome)

\* line 101: recipe.identifier[:12]
RecipeIdLen == 12

\* the truth value of an Optional[str]
StrTruthy(x) == ~IsNul(x) /\ Len(x.v) > 0

\* lines 105-119, from step k on: the disk, the image map and the number of
\* requests after the steps k.. of the recipe, outcomes[k] being what the
\* download for step k meets
RECURSIVE DownloadSteps(_, _, _, _, _, _, _)
DownloadSteps(steps, k, recipe_id, d, image_map, requests, outcomes) ==
    IF k > Len(steps) THEN [disk |-> d, image_map |-> image_map,
                            requests |-> requests]
    ELSE IF ~StrTruthy(steps[k].image_url)
    THEN DownloadSteps(steps, k + 1, recipe_id, d, image_map, requests, outcomes)
    ELSE LET filename == get_image_filename(steps[k].image_url.v, recipe_id,
                                            steps[k].step_number)
             r == download_image(d, steps[k].image_url.v, filename, outcomes[k])
         IN  DownloadSteps(steps, k + 1, recipe_id, r.disk,
                           IF r.result
                           THEN (steps[k].step_number :> filename) @@ image_map
                           ELSE image_map,
                           requests + (IF r.requested THEN 1 ELSE 0), outcomes)

\* lines 90-121
download_recipe_images(recipe, d, outcomes) ==
    IF IsNul(recipe.identifier) THEN Raise("TypeError")
    ELSE LET recipe_id == SubSeq(recipe.identifier.v, 1,
                                 Min(RecipeIdLen, Len(recipe.identifier.v)))
             r == DownloadSteps(recipe.steps, 1, recipe_id, d, <<>>, 0, outcomes)
         IN  [p |-> "ok", disk |-> r.disk, image_map |-> r.image_map,
              requests |-> r.requests]

(***************************************************************************)
(* Runs of download_image: any sequence of at most MaxCalls calls          *)
(***************************************************************************)
IdA == Rep("5", RecipeIdLen) \o <<"a">>
IdB == Rep("5", RecipeIdLen) \o <<"b">>
Urls == {Url1, Url2, Url3}

InitDownload ==
    /\ fn = "download_image"
    /\ arg = Nul
    /\ ret = Nul
    /\ called = FALSE
    /\ RunIdle
    /\ DiskIdle

CallDownloadImage ==
    /\ fn = "download_image"
    /\ idx < MaxCalls
    /\ \E url \in Urls, id \in {<<>>, IdA}, step \in 1..2, outcome \in Outcomes :
          LET filename == get_image_filename(url, id, step)
              r == download_image(disk, url, filename, outcome)
          IN  /\ disk' = r.disk
              /\ last' = [p |-> "call", url |-> url, filename |-> filename,
                          existed |-> Exists(disk, filename),
                          before |-> IF Exists(disk, filename)
                                     THEN disk[filename] ELSE NoFile,
                          requested |-> r.requested, result |-> r.result]
              /\ ret' = r.result
    /\ idx' = idx + 1
    /\ called' = TRUE
    /\ UNCHANGED <<fn, arg, pc, env, access_token, loginRet, favorites,
                   detailed_recipes, all_images, exportDir, generated_files,
                   used_images, returned_maps, log>>

NextDownload == CallDownloadImage

SpecDownload == InitDownload /\ [][NextDownload]_vars

\* C5: a download_image call whose target file exists issues no request,
\* leaves the file as it was and returns True; a request is issued only when
\* the target file does not exist.
C5_SkipExisting ==
    (fn = "download_image" /\ last.p = "call") =>
        /\ last.existed =>
             /\ ~last.requested
             /\ last.result = TRUE
             /\ Exists(disk, last.filename)
             /\ disk[last.filename] = last.before
        /\ last.requested => ~last.existed

\* C5's case: a call has found its target file on disk, left by an earlier
\* call that did issue a request
C5_Witness ==
    /\ fn = "download_image" /\ last.p = "call"
    /\ last.existed /\ ~last.requested /\ last.result = TRUE
    /\ disk[last.filename] = Complete(last.url)
    /\ idx >= 2

(***************************************************************************)
(* auth.py, api_client.py, pdf_generator.py and main.py: the batch run     *)
(***************************************************************************)
Token == <<"t", "o", "k">>

\* what the login endpoint answers: a transport or status error, or a body
\* whose accessToken is a token, the empty string, or missing
LoginResponses == {Raise("RequestException"), Val(Token), Val(<<>>), Abs}

\* auth.py lines 63-74: the token stored and the value returned
login(token, response) ==
    IF IsRaise(response) THEN [token |-> token, result |-> FALSE]
    ELSE LET t == DictGet(response, Nul)
         IN  [token |-> t, result |-> ~IsNul(t)]

\* auth.py lines 88-90
is_authenticated(token) == ~IsNul(token)

\* auth.py lines 76-86
get_auth_headers(token) ==
    IF ~StrTruthy(token) THEN Raise("ValueError") ELSE Val([Token |-> token.v])

\* a main that goes on whatever login returned
AfterLoginUnchecked(ok) == "client"

\* main.py lines 28-32: go on after a successful login, exit(1) otherwise
AfterLogin(ok) == IF ok THEN "client" ELSE "exit1"

ApiRecipe(id, title, steps, ingredients) ==
    [_id |-> id, title |-> title, preparationTime |-> Val(10),
     cookingTime |-> Abs, steps |-> Val(steps), ingredients |-> ingredients,
     rtype |-> Abs, authorComment |-> Abs]

PastaBang == <<"P", "a", "s", "t", "a", "!">>
PastaWhat == <<"P", "a", "s", "t", "a", "?">>
Brot == <<"B", "r", "o", "t">>

\* the records the recipe search serves here: two recipes whose titles differ
\* in punctuation only and whose identifiers share their first 12 characters,
\* two recipes without an identifier, and a recipe whose step has a null image
ServedRecords ==
    {ApiRecipe(Val([oid |-> Val(IdA)]), Val(PastaBang),
               <<ApiStep(Val(Mix), Abs, Val([url |-> Val(Url1)]), Abs)>>,
               Val(<<MainShapeIngredient>>)),
     ApiRecipe(Val([oid |-> Val(IdB)]), Val(PastaWhat),
               <<ApiStep(Val(Bake), Abs, Val([url |-> Val(Url2)]), Abs)>>, Abs),
     ApiRecipe(Abs, Abs,
               <<ApiStep(Val(Mix), Abs, Val([url |-> Val(Url1)]), Abs)>>, Abs),
     ApiRecipe(Abs, Val(Brot),
               <<ApiStep(Val(Bake), Abs, Val([url |-> Val(Url3)]), Abs)>>, Abs),
     ApiRecipe(Val([oid |-> Val(IdA)]), Val(Brot),
               <<ApiStep(Val(Mix), Abs, Nul, Abs)>>, Abs)}

\* what the recipe search answers: an error, an empty list, or a record
DetailResponses ==
    {Raise("RequestException"), Val(<<>>)} \cup {Val(<<r>>) : r \in ServedRecords}

\* api_client.py lines 50-82 after the headers: None (Nul) when the request
\* fails or finds nothing, else what Recipe.from_api_data gives or raises
get_recipe_details(response) ==
    IF IsRaise(response) THEN Nul
    ELSE IF Len(response.v) = 0 THEN Nul
    ELSE Recipe_from_api_data(response.v[1])

\* what the favorites endpoint answers: an error or a list of identifiers
FavoritesResponses ==
    {Raise("RequestException")}
    \cup {Val([i \in 1..n |-> i]) : n \in 0..MaxFavorites}

\* api_client.py lines 37-48
get_favorites(response) == IF IsRaise(response) THEN <<>> ELSE response.v

\* the outcomes of a download in the batch run
RunOutcomes == {"ok", "request_error", "stream_error"}

\* os.path.join(output_dir, filename)
ExportPath(filename) == <<"e", "x", "p", "o", "r", "t", "/">> \o filename

\* all_recipe_images.get(recipe.identifier, {})
ImagesFor(images, recipe) ==
    IF recipe.identifier \in DOMAIN images THEN images[recipe.identifier]
    ELSE <<>>

Init ==
    /\ fn = "main"
    /\ arg = Nul
    /\ ret = Nul
    /\ called = FALSE
    /\ pc = "start"
    /\ env \in [key : BOOLEAN, credentials : BOOLEAN]
    /\ access_token = Nul
    /\ loginRet = "none"
    /\ favorites = <<>>
    /\ detailed_recipes = <<>>
    /\ idx = 0
    /\ all_images = <<>>
    /\ exportDir = <<>>
    /\ generated_files = <<>>
    /\ used_images = <<>>
    /\ returned_maps = <<>>
    /\ log = NoLog
    /\ DiskIdle

\* main.py line 24, auth.py lines 16-23: without the API key the constructor
\* raises, outside any try
AuthInit ==
    /\ pc = "start"
    /\ pc' = IF env.key THEN "login" ELSE "raised"
    /\ UNCHANGED <<pureVars, env, access_token, loginRet, favorites,
                   detailed_recipes, idx, all_images, exportDir,
                   generated_files, used_images, returned_maps, log, diskVars>>

\* main.py lines 27-35, auth.py lines 25-74
Login ==
    /\ pc = "login"
    /\ IF ~env.credentials
       THEN /\ loginRet' = "ValueError"
            /\ pc' = "exit1"
            /\ UNCHANGED <<access_token, log>>
       ELSE \E response \in LoginResponses :
               LET r == login(access_token, response)
               IN  /\ access_token' = r.token
                   /\ loginRet' = IF r.result THEN "True" ELSE "False"
                   /\ log' = [log EXCEPT !.login = @ + 1]
                   /\ pc' = AfterLogin(r.result)
    /\ UNCHANGED <<pureVars, env, favorites, detailed_recipes, idx, all_images,
                   exportDir, generated_files, used_images,
                   returned_maps, diskVars>>

\* main.py line 38, api_client.py lines 16-25
ClientInit ==
    /\ pc = "client"
    /\ pc' = IF is_authenticated(access_token) THEN "favorites" ELSE "raised"
    /\ UNCHANGED <<pureVars, env, access_token, loginRet, favorites,
                   detailed_recipes, idx, all_images, exportDir,
                   generated_files, used_images, returned_maps, log, diskVars>>

\* main.py lines 42-46, api_client.py lines 27-48: the headers are built
\* outside the try
GetFavorites ==
    /\ pc = "favorites"
    /\ IF IsRaise(get_auth_headers(access_token))
       THEN /\ pc' = "raised"
            /\ UNCHANGED <<favorites, idx, log>>
       ELSE \E response \in FavoritesResponses :
               /\ favorites' = get_favorites(response)
               /\ log' = [log EXCEPT !.favorites = @ + 1]
               /\ pc' = IF favorites' = <<>> THEN "exit1" ELSE "details"
               /\ idx' = 1
    /\ UNCHANGED <<pureVars, env, access_token, loginRet, detailed_recipes,
                   all_images, exportDir, generated_files, used_images,
                   returned_maps,
                   diskVars>>

\* api_client.py lines 96-103: one pass of the loop of get_all_recipe_details
GetRecipeDetails ==
    /\ pc = "details"
    /\ idx <= Len(favorites)
    /\ IF IsRaise(get_auth_headers(access_token))
       THEN /\ pc' = "raised"
            /\ UNCHANGED <<detailed_recipes, idx, log>>
       ELSE \E response \in DetailResponses :
               LET recipe == get_recipe_details(response)
               IN  \* distinct favorites are distinct recipes
                   /\ recipe \notin Range(detailed_recipes)
                   /\ log' = [log EXCEPT !.details = @ + 1]
                   /\ IF IsRaise(recipe)
                      THEN /\ pc' = "raised"
                           /\ UNCHANGED <<detailed_recipes, idx>>
                      ELSE /\ detailed_recipes' =
                                IF IsNul(recipe) THEN detailed_recipes
                                ELSE Append(detailed_recipes, recipe)
                           /\ idx' = idx + 1
                           /\ pc' = pc
    /\ UNCHANGED <<pureVars, env, access_token, loginRet, favorites, all_images,
                   exportDir, generated_files, used_images,
                   returned_maps, diskVars>>

\* api_client.py line 105, main.py lines 50-57
FinishDetails ==
    /\ pc = "details"
    /\ idx > Len(favorites)
    /\ pc' = "images"
    /\ idx' = 1
    /\ UNCHANGED <<pureVars, env, access_token, loginRet, favorites,
                   detailed_recipes, all_images, exportDir, generated_files,
                   used_images, returned_maps, log, diskVars>>

\* image_downloader.py lines 135-138: one pass of the loop of
\* download_all_recipe_images
DownloadRecipeImages ==
    /\ pc = "images"
    /\ idx <= Len(detailed_recipes)
    /\ LET recipe == detailed_recipes[idx]
       IN  \E outcomes \in [1..Len(recipe.steps) -> RunOutcomes] :
              LET r == download_recipe_images(recipe, disk, outcomes)
              IN  IF IsRaise(r)
                  THEN /\ pc' = "raised"
                       /\ UNCHANGED <<disk, all_images, returned_maps, idx,
                                      log>>
                  ELSE /\ disk' = r.disk
                       /\ all_images' =
                            (recipe.identifier :> r.image_map) @@ all_images
                       /\ returned_maps' = Append(returned_maps, r.image_map)
                       /\ log' = [log EXCEPT !.images = @ + r.requests]
                       /\ idx' = idx + 1
                       /\ pc' = pc
    /\ UNCHANGED <<pureVars, env, access_token, loginRet, favorites,
                   detailed_recipes, exportDir, generated_files, used_images,
                   last>>

\* image_downloader.py lines 140-143, main.py lines 57-63
FinishImages ==
    /\ pc = "images"
    /\ idx > Len(detailed_recipes)
    /\ pc' = "pdfs"
    /\ idx' = 1
    /\ UNCHANGED <<pureVars, env, access_token, loginRet, favorites,
                   detailed_recipes, all_images, exportDir, generated_files,
                   used_images, returned_maps, log, diskVars>>

\* pdf_generator.py lines 300-312 and 242-281: one pass of the loop of
\* generate_all_recipe_pdfs; the document is written by doc.build, which may
\* fail, and every exception is caught
GenerateRecipePdf ==
    /\ pc = "pdfs"
    /\ idx <= Len(detailed_recipes)
    /\ LET recipe == detailed_recipes[idx]
           recipe_images == ImagesFor(all_images, recipe)
           filename == generate_recipe_filename(recipe)
       IN  \E built \in BOOLEAN :
              IF IsRaise(filename) \/ ~built
              THEN UNCHANGED <<exportDir, generated_files, used_images>>
              ELSE /\ exportDir' =
                        (ExportPath(filename.v) :> [recipe |-> idx]) @@ exportDir
                   /\ generated_files' =
                        Append(generated_files, ExportPath(filename.v))
                   /\ used_images' =
                        Append(used_images,
                               [recipe |-> idx, images |-> recipe_images])
    /\ log' = [log EXCEPT !.pdfs = @ + 1]
    /\ idx' = idx + 1
    /\ UNCHANGED <<pureVars, pc, env, access_token, loginRet, favorites,
                   detailed_recipes, all_images, returned_maps, diskVars>>

\* pdf_generator.py lines 314-315, main.py lines 65-66
FinishPdfs ==
    /\ pc = "pdfs"
    /\ idx > Len(detailed_recipes)
    /\ pc' = "done"
    /\ UNCHANGED <<pureVars, env, access_token, loginRet, favorites,
                   detailed_recipes, idx, all_images, exportDir,
                   generated_files, used_images, returned_maps, log, diskVars>>

Next ==
    \/ AuthInit
    \/ Login
    \/ ClientInit
    \/ GetFavorites
    \/ GetRecipeDetails
    \/ FinishDetails
    \/ DownloadRecipeImages
    \/ FinishImages
    \/ GenerateRecipePdf
    \/ FinishPdfs

Spec == Init /\ [][Next]_vars

(***************************************************************************)
(* Properties of the batch run                                             *)
(***************************************************************************)
\* the requests and renderings that follow authentication
WorkDone == log.favorites + log.details + log.images + log.pdfs

\* C1: once login has succeeded and a non-empty favorites list has been
\* obtained, no failure of a single item ends the batch: the run is never
\* ended by an exception or a failure exit, only by "export complete".
C1_NoItemAbortsBatch ==
    (loginRet = "True" /\ favorites # <<>>) => pc \notin {"raised", "exit1"}

\* C2: authentication failure is fatal and comes first: a run whose login did
\* not return True ends with a failure exit (or, without the API key, with the
\* constructor's exception) before any favorites request, recipe-detail
\* request, image download or document generation.
C2_AuthFailureFirst ==
    /\ WorkDone > 0 => loginRet = "True"
    /\ loginRet \in {"False", "ValueError"} => pc = "exit1"
    /\ (~env.key /\ pc # "start") => (pc = "raised" /\ loginRet = "none")
    /\ loginRet # "True" =>
         /\ favorites = <<>> /\ detailed_recipes = <<>>
         /\ disk = <<>> /\ exportDir = <<>>

\* C2's case: login has returned False and the run has ended with exit(1)
\* having requested nothing else
C2_Witness ==
    /\ loginRet = "False" /\ log.login = 1
    /\ pc = "exit1" /\ WorkDone = 0

\* C3: after generate_all_recipe_pdfs the export directory holds one document
\* per recipe that rendered: the returned paths are pairwise distinct and no
\* recipe's document has been overwritten by another recipe's.
C3_OneDocumentPerRecipe ==
    pc = "done" =>
        /\ \A i, j \in 1..Len(generated_files) :
              i # j => generated_files[i] # generated_files[j]
        /\ Cardinality(DOMAIN exportDir) = Len(generated_files)
        /\ \A i \in 1..Len(generated_files) :
              exportDir[generated_files[i]].recipe = used_images[i].recipe

(***************************************************************************)
(* Further properties of download_image and format_quantity                *)
(***************************************************************************)
\* C14: whenever download_image(url, filename) returns True the target file
\* holds the complete bytes served for url, whatever requests failed before,
\* part-way through streaming included.
C14_TrueMeansComplete ==
    (fn = "download_image" /\ last.p = "call" /\ last.result = TRUE) =>
        /\ Exists(disk, last.filename)
        /\ disk[last.filename] = Complete(last.url)

\* int(str) of a string of decimal digits
RECURSIVE StrInt(_)
StrInt(s) ==
    IF s = <<>> THEN 0
    ELSE 10 * StrInt(SubSeq(s, 1, Len(s) - 1))
         + (CHOOSE k \in 0..9 : Digit[k + 1] = s[Len(s)])

\* the numerator and the denominator written around the "/" of s
WrittenFraction(s) ==
    LET slash == LastIndexOf(s, "/")
        space == LastIndexOf(s, " ")
    IN  [n |-> StrInt(SubSeq(s, space + 1, slash - 1)),
         d |-> StrInt(SubSeq(s, slash + 1, Len(s)))]

\* C16: whenever format_quantity of a positive quantity returns a string with
\* a "/", the fraction written is proper and in lowest terms: 1 <= numerator
\* < denominator and 2 <= denominator <= 16; "1/1" and "0/1" never appear.
C16_ProperFraction ==
    (fn = "format_quantity" /\ called /\ arg.n > 0 /\ "/" \in Range(ret)) =>
        LET f == WrittenFraction(ret)
        IN  /\ 1 <= f.n /\ f.n < f.d
            /\ 2 <= f.d /\ f.d <= MaxDenominator
            /\ Gcd(f.n, f.d) = 1

\* C13: the step-number-to-filename map a recipe is rendered with is the map
\* download_recipe_images returned for that same recipe, also when recipes
\* have no identifier or share one.
C13_OwnImageMap ==
    fn = "main" =>
        \A i \in 1..Len(used_images) :
            used_images[i].images = returned_maps[used_images[i].recipe]

(***************************************************************************)
(* auth.py and api_client.py: one KtpncookAuth object over a sequence of   *)
(* login calls, and a KtpncookAPIClient built on it.  arg is the sequence  *)
(* of answers the login endpoint has given, idx the number of login calls  *)
(* made when the client was constructed.                                   *)
(***************************************************************************)
Token2 == <<"k", "e", "y">>

\* what the login endpoint may answer to each call
AuthResponses == LoginResponses \cup {Val(Token2)}

InitAuth ==
    /\ fn = "auth"
    /\ arg = <<>>
    /\ ret = Nul
    /\ called = FALSE
    /\ RunIdle
    /\ DiskIdle

\* auth.py lines 40-74
CallLogin ==
    /\ fn = "auth"
    /\ Len(arg) < MaxCalls
    /\ \E response \in AuthResponses :
          LET r == login(access_token, response)
          IN  /\ access_token' = r.token
              /\ loginRet' = IF r.result THEN "True" ELSE "False"
              /\ arg' = Append(arg, response)
    /\ called' = FALSE
    /\ UNCHANGED <<fn, ret, pc, env, favorites, detailed_recipes, idx,
                   all_images, exportDir, generated_files, used_images,
                   returned_maps, log, diskVars>>

\* api_client.py lines 16-25: the constructor raises unless the auth object
\* says it is authenticated
NewClient ==
    /\ fn = "auth"
    /\ pc = "idle"
    /\ IF is_authenticated(access_token)
       THEN pc' = "client" /\ idx' = Len(arg) /\ ret' = Nul
       ELSE pc' = pc /\ idx' = idx /\ ret' = Raise("ValueError")
    /\ called' = FALSE
    /\ UNCHANGED <<fn, arg, env, access_token, loginRet, favorites,
                   detailed_recipes, all_images, exportDir, generated_files,
                   used_images, returned_maps, log, diskVars>>

\* api_client.py lines 35 and 62: get_favorites and get_recipe_details start
\* by asking the auth object for the headers, outside their try
ClientGetAuthHeaders ==
    /\ fn = "auth"
    /\ pc = "client"
    /\ ~called
    /\ ret' = get_auth_headers(access_token)
    /\ called' = TRUE
    /\ UNCHANGED <<fn, arg, runVars, diskVars>>

NextAuth == CallLogin \/ NewClient \/ ClientGetAuthHeaders

SpecAuth == InitAuth /\ [][NextAuth]_vars

\* C15: after any sequence of login calls, is_authenticated() returning True
\* implies that get_auth_headers() returns a header instead of raising, and a
\* client that has just passed its constructor check gets its auth headers.
C15_AuthenticatedHasHeaders ==
    fn = "auth" =>
        /\ is_authenticated(access_token) =>
               ~IsRaise(get_auth_headers(access_token))
        /\ (pc = "client" /\ called /\ idx = Len(arg)) => ~IsRaise(ret)

(***************************************************************************)
(* pdf_generator.py: the block sequence ("story") of a recipe document     *)
(*                                                                         *)
(* A story is a sequence of flowables, each a record.  A function that     *)
(* appends to the story is the story it leaves, Val(story), or the         *)
(* exception it raises.  The download directory is the disk, a function    *)
(* from file names to contents; a content is a picture of some size or     *)
(* bytes that are not an image.                                            *)
(***************************************************************************)
TypLabel == <<"T", "y", "p", ":">>
PrepLabel ==
    <<"V", "o", "r", "b", "e", "r", "e", "i", "t", "u", "n", "g", "s", "z",
      "e", "i", "t", ":">>
CookLabel == <<"K", "o", "c", "h", "z", "e", "i", "t", ":">>
TotalLabel == <<"G", "e", "s", "a", "m", "t", "z", "e", "i", "t", ":">>
CommentLabel ==
    <<"B", "e", "s", "c", "h", "r", "e", "i", "b", "u", "n", "g", ":">>
IdLabel == <<"R", "e", "z", "e", "p", "t", "-", "I", "D", ":">>
Minuten == <<" ", "M", "i", "n", "u", "t", "e", "n">>
ZutatenHeader ==
    <<"Z", "u", "t", "a", "t", "e", "n", " ", "(", "f", "U+00FC", "r", " ",
      "2", " ", "P", "e", "r", "s", "o", "n", "e", "n", ")">>
Anweisungen == <<"A", "n", "w", "e", "i", "s", "u", "n", "g", "e", "n">>
Schritt == <<"S", "c", "h", "r", "i", "t", "t", " ">>
StepIngredientsHeader ==
    <<"<", "b", ">", "Z", "u", "t", "a", "t", "e", "n", " ", "f", "U+00FC",
      "r", " ", "d", "i", "e", "s", "e", "n", " ", "S", "c", "h", "r", "i",
      "t", "t", ":", "<", "/", "b", ">">>
Bullet == <<"U+2022", " ">>

\* the flowables
Paragraph(text, style) == [b |-> "Paragraph", text |-> text, style |-> style]
Spacer(width, height) == [b |-> "Spacer", width |-> width, height |-> height]
Table(data) == [b |-> "Table", data |-> data]
Image(filename, width, height) ==
    [b |-> "Image", filename |-> filename, width |-> width, height |-> height]

\* lines 130-147: the rows of the info table
InfoData(recipe) ==
    (IF StrTruthy(recipe.recipe_type)
     THEN <<(<<TypLabel, recipe.recipe_type.v>>)>> ELSE <<>>)
    \o (IF recipe.preparation_time.v > 0
        THEN <<(<<PrepLabel, IntStr(recipe.preparation_time.v) \o Minuten>>)>>
        ELSE <<>>)
    \o (IF recipe.cooking_time.v > 0
        THEN <<(<<CookLabel, IntStr(recipe.cooking_time.v) \o Minuten>>)>>
        ELSE <<>>)
    \o (IF get_total_time(recipe).v > 0
        THEN <<(<<TotalLabel, IntStr(get_total_time(recipe).v) \o Minuten>>)>>
        ELSE <<>>)
    \o (IF StrTruthy(recipe.author_comment)
        THEN <<(<<CommentLabel, recipe.author_comment.v>>)>> ELSE <<>>)
    \o (IF StrTruthy(recipe.identifier)
        THEN <<(<<IdLabel, recipe.identifier.v>>)>> ELSE <<>>)

\* lines 124-160; a Paragraph of None raises, and so does comparing a time
\* of None with 0
add_recipe_header(story, recipe) ==
    IF IsNul(recipe.title) THEN Raise("AttributeError")
    ELSE IF IsNul(recipe.preparation_time) \/ IsNul(recipe.cooking_time)
    THEN Raise("TypeError")
    ELSE LET titled == story \o <<Paragraph(recipe.title.v, "RecipeTitle"),
                                  Spacer(1, 12)>>
             info_data == InfoData(recipe)
         IN  IF info_data # <<>>
             THEN Val(titled \o <<Table(info_data), Spacer(1, 12)>>)
             ELSE Val(titled)

\* lines 168-170: one bullet paragraph per ingredient, in list order
BulletLines(ingredients) ==
    [i \in 1..Len(ingredients) |->
        Paragraph(Bullet \o format_ingredient(ingredients[i]), "Ingredient")]

\* an ingredients section that emits its header whatever the list holds
add_ingredients_section_unguarded(story, recipe) ==
    Val(story \o <<Paragraph(ZutatenHeader, "SectionHeader")>>
        \o BulletLines(recipe.all_ingredients) \o <<Spacer(1, 16)>>)

\* lines 162-173
add_ingredients_section(story, recipe) ==
    IF recipe.all_ingredients = <<>> THEN Val(story)
    ELSE Val(story \o <<Paragraph(ZutatenHeader, "SectionHeader")>>
             \o BulletLines(recipe.all_ingredients) \o <<Spacer(1, 16)>>)

DownloadDir == <<"i", "m", "a", "g", "e", "s">>

\* image_downloader.py lines 145-155: os.path.join(download_dir, filename)
get_image_path(filename) ==
    IF Len(filename) > 0 /\ filename[1] = "/" THEN filename
    ELSE DownloadDir \o <<"/">> \o filename

\* os.path.exists(path), and the content of the file at path
PathExists(d, path) == \E f \in DOMAIN d : get_image_path(f) = path
FileAt(d, path) == d[CHOOSE f \in DOMAIN d : get_image_path(f) = path]

Picture(width, height) == [p |-> "picture", width |-> width, height |-> height]
Garbage == [p |-> "garbage"]

\* lines 182-183: PILImage.open(path).size; a file that is not an image raises
PILOpenSize(content) ==
    IF content.p = "picture"
    THEN [p |-> "ok", width |-> content.width, height |-> content.height]
    ELSE Raise("UnidentifiedImageError")

\* line 175: max_width = 4*inch, in points
MaxWidth == 288

\* lines 186-192: the size the image is drawn at, as rationals
ScaledSize(size, max_width) ==
    IF size.width > max_width
    THEN [width |-> Frac(max_width, 1),
          height |-> Frac(size.height * max_width, size.width)]
    ELSE [width |-> Frac(size.width, 1), height |-> Frac(size.height, 1)]

\* an add_recipe_image without the try: the exception of PILImage.open leaves
add_recipe_image_uncaught(story, image_path, d) ==
    IF ~PathExists(d, image_path) THEN Val(story)
    ELSE LET size == PILOpenSize(FileAt(d, image_path))
         IN  IF IsRaise(size) THEN size
             ELSE LET new == ScaledSize(size, MaxWidth)
                  IN  Val(story \o <<Image(image_path, new.width, new.height),
                                     Spacer(1, 8)>>)

\* lines 175-200: every exception is caught and a warning printed
add_recipe_image(story, image_path, d) ==
    IF ~PathExists(d, image_path) THEN Val(story)
    ELSE LET size == PILOpenSize(FileAt(d, image_path))
         IN  IF IsRaise(size) THEN Val(story)
             ELSE LET new == ScaledSize(size, MaxWidth)
                  IN  Val(story \o <<Image(image_path, new.width, new.height),
                                     Spacer(1, 8)>>)

\* lines 210-213: the title line of a step
StepTitleLine(step) ==
    Paragraph(Schritt \o IntStr(step.step_number) \o <<":", " ">>
              \o PyStr(step.title), "StepTitle")

\* lines 221-226: the ingredients of a step, if it has any
StepSubList(step) ==
    IF step.ingredients = <<>> THEN <<>>
    ELSE <<Paragraph(StepIngredientsHeader, "Normal")>>
         \o BulletLines(step.ingredients) \o <<Spacer(1, 6)>>

\* lines 209-228: the loop over the steps, from step k on
RECURSIVE StepBlocks(_, _, _, _, _)
StepBlocks(story, steps, k, recipe_images, d) ==
    IF k > Len(steps) THEN Val(story)
    ELSE LET step == steps[k]
             titled == story \o <<StepTitleLine(step)>>
             imaged ==
                 IF step.step_number \in DOMAIN recipe_images
                 THEN add_recipe_image(
                          titled,
                          get_image_path(recipe_images[step.step_number]), d)
                 ELSE Val(titled)
         IN  IF IsRaise(imaged) THEN imaged
             ELSE StepBlocks(imaged.v \o StepSubList(step)
                                 \o <<Spacer(1, 12)>>,
                             steps, k + 1, recipe_images, d)

\* lines 202-228
add_steps_section(story, recipe, recipe_images, d) ==
    IF recipe.steps = <<>> THEN Val(story)
    ELSE StepBlocks(story \o <<Paragraph(Anweisungen, "SectionHeader")>>,
                    recipe.steps, 1, recipe_images, d)

\* lines 266-276: the story generate_recipe_pdf hands to doc.build
RecipeStory(recipe, recipe_images, d) ==
    LET headed == add_recipe_header(<<>>, recipe)
    IN  IF IsRaise(headed) THEN headed
        ELSE LET listed == add_ingredients_section(headed.v, recipe)
             IN  IF IsRaise(listed) THEN listed
                 ELSE add_steps_section(listed.v, recipe, recipe_images, d)

(***************************************************************************)
(* Runs of the renderer: a recipe parsed from a source record, an image    *)
(* map and a download directory are drawn in the initial state; then       *)
(* generate_recipe_pdf or add_steps_section is applied once.               *)
(***************************************************************************)
\* the step records Recipe.from_api_data accepts
RenderStepSamples ==
    {x \in StepSamples : ~IsRaise(RecipeStep_from_api_data(x, 1))}

RenderRecipes ==
    {Recipe_from_api_data(ApiRecipe(Val([oid |-> Val(Id1)]), Val(Pasta),
                                    steps, ingredients)) :
        steps \in SeqsUpTo(RenderStepSamples, MaxSteps),
        ingredients \in {Abs, Val(<<MainShapeIngredient>>),
                         Val(<<MainShapeIngredient, StepShapeIngredient>>)}}

FileA == get_image_filename(Url1, Id1, 1)
FileB == get_image_filename(Url2, Id1, 2)

\* step number -> file name, for any set of step numbers
RenderImageMaps ==
    UNION {[S -> {FileA, FileB}] : S \in SUBSET (1..MaxSteps)}

\* each file is missing, not an image, a small picture or a wide one
RenderDisks ==
    UNION {[S -> {Garbage, Picture(200, 150), Picture(400, 300)}] :
              S \in SUBSET {FileA, FileB}}

InitRender ==
    /\ fn \in {"generate_recipe_pdf", "add_steps_section"}
    /\ arg \in [recipe : RenderRecipes, recipe_images : RenderImageMaps]
    /\ ret = Nul
    /\ called = FALSE
    /\ RunIdle
    /\ disk \in RenderDisks
    /\ last = NoCall

\* lines 242-281: the file name, the story, then doc.build, which may fail
CallGenerateRecipePdf ==
    /\ fn = "generate_recipe_pdf"
    /\ ~called
    /\ LET filename == generate_recipe_filename(arg.recipe)
           story == RecipeStory(arg.recipe, arg.recipe_images, disk)
       IN  \E built \in BOOLEAN :
              IF IsRaise(filename)
              THEN ret' = filename /\ exportDir' = exportDir
              ELSE IF IsRaise(story)
              THEN ret' = story /\ exportDir' = exportDir
              ELSE IF ~built
              THEN /\ ret' = [p |-> "raise", kind |-> "Exception",
                              story |-> story.v]
                   /\ exportDir' = exportDir
              ELSE /\ ret' = [p |-> "val", v |-> ExportPath(filename.v),
                              story |-> story.v]
                   /\ exportDir' = (ExportPath(filename.v) :>
                                        [story |-> story.v]) @@ exportDir
    /\ called' = TRUE
    /\ UNCHANGED <<fn, arg, pc, env, access_token, loginRet, favorites,
                   detailed_recipes, idx, all_images, generated_files,
                   used_images, returned_maps, log, diskVars>>

\* lines 202-228, applied to an empty story
CallAddStepsSection ==
    /\ fn = "add_steps_section"
    /\ ~called
    /\ ret' = add_steps_section(<<>>, arg.recipe, arg.recipe_images, disk)
    /\ called' = TRUE
    /\ UNCHANGED <<fn, arg, runVars, diskVars>>

NextRender == CallGenerateRecipePdf \/ CallAddStepsSection

SpecRender == InitRender /\ [][NextRender]_vars

(***************************************************************************)
(* Properties of the block sequence                                        *)
(***************************************************************************)
IndexesOf(story, block) == {i \in 1..Len(story) : story[i] = block}

IsBulletLine(block) == block.b = "Paragraph" /\ block.style = "Ingredient"
IsStepTitle(block) == block.b = "Paragraph" /\ block.style = "StepTitle"

\* the bullet line the document shows for an ingredient
BulletLineOf(ingredient) ==
    Paragraph(Bullet \o format_ingredient(ingredient), "Ingredient")

\* C11: in the block sequence of a recipe the steps block (the "Anweisungen"
\* header and the step lines) is present iff the recipe has a step, the
\* ingredients block iff all_ingredients is not empty; a present ingredients
\* block has exactly one bullet line per ingredient, in list order, and comes
\* before the steps block.
C11_SectionsByContent ==
    (fn = "generate_recipe_pdf" /\ called) =>
        /\ "story" \in DOMAIN ret
        /\ LET story == ret.story
               recipe == arg.recipe
               n == Len(recipe.all_ingredients)
               zutaten == IndexesOf(story,
                                    Paragraph(ZutatenHeader, "SectionHeader"))
               anweisungen == IndexesOf(story,
                                        Paragraph(Anweisungen, "SectionHeader"))
               titles == {i \in 1..Len(story) : IsStepTitle(story[i])}
           IN  /\ Cardinality(anweisungen) =
                      IF recipe.steps # <<>> THEN 1 ELSE 0
               /\ Cardinality(titles) = Len(recipe.steps)
               /\ \A i \in titles : \E j \in anweisungen : j < i
               /\ Cardinality(zutaten) = IF n > 0 THEN 1 ELSE 0
               /\ \A i \in zutaten :
                     /\ i + n < Len(story)
                     /\ \A k \in 1..n :
                           story[i + k] = BulletLineOf(recipe.all_ingredients[k])
                     /\ ~IsBulletLine(story[i + n + 1])
                     /\ \A j \in anweisungen \cup titles : i + n < j
               /\ \A i \in 1..Len(story) :
                     IsBulletLine(story[i]) =>
                         \/ \E j \in zutaten : j < i /\ i <= j + n
                         \/ \E j \in anweisungen : j < i

\* C11's case: a recipe with two ingredients and a step has been rendered,
\* and one without ingredients would be told apart by the header
C11_Witness ==
    /\ fn = "generate_recipe_pdf"
    /\ called
    /\ Len(arg.recipe.all_ingredients) = 2
    /\ Len(arg.recipe.steps) >= 1
    /\ Paragraph(ZutatenHeader, "SectionHeader") \in Range(ret.story)
    /\ Paragraph(Anweisungen, "SectionHeader") \in Range(ret.story)

\* the position of the k-th step title line of the story
TitlePos(story, k) ==
    CHOOSE i \in 1..Len(story) :
        /\ IsStepTitle(story[i])
        /\ Cardinality({j \in 1..(i - 1) : IsStepTitle(story[j])}) = k - 1

\* the blocks between the k-th step title line and the next one
StepSegment(story, k, count) ==
    SubSeq(story, TitlePos(story, k) + 1,
           IF k < count THEN TitlePos(story, k + 1) - 1 ELSE Len(story))

\* the map has an entry for the step and the mapped file is on disk and is
\* an image
ImageReadable(step, recipe_images, d) ==
    /\ step.step_number \in DOMAIN recipe_images
    /\ recipe_images[step.step_number] \in DOMAIN d
    /\ d[recipe_images[step.step_number]].p = "picture"

\* C12: add_steps_section never raises because of an image; for each step, in
\* order, the steps block holds the line "Schritt {n}: {title}", then an
\* image block iff the map has an entry for n whose file exists and is
\* readable, then the step's ingredient sub-list iff the step has ingredients.
C12_StepBlocks ==
    (fn = "add_steps_section" /\ called) =>
        /\ ~IsRaise(ret)
        /\ LET story == ret.v
               steps == arg.recipe.steps
               count == Len(steps)
           IN  /\ Cardinality({i \in 1..Len(story) : IsStepTitle(story[i])})
                      = count
               /\ \A k \in 1..count :
                     LET step == steps[k]
                         seg == StepSegment(story, k, count)
                         m == Len(step.ingredients)
                         images == {i \in 1..Len(seg) : seg[i].b = "Image"}
                         subs == IndexesOf(seg, Paragraph(StepIngredientsHeader,
                                                          "Normal"))
                         bullets == {i \in 1..Len(seg) : IsBulletLine(seg[i])}
                     IN  /\ story[TitlePos(story, k)] =
                                Paragraph(Schritt \o IntStr(step.step_number)
                                              \o <<":", " ">>
                                              \o PyStr(step.title),
                                          "StepTitle")
                         /\ images =
                                IF ImageReadable(step, arg.recipe_images, disk)
                                THEN {1} ELSE {}
                         /\ Cardinality(subs) = IF m > 0 THEN 1 ELSE 0
                         /\ Cardinality(bullets) = m
                         /\ \A i \in subs :
                               /\ \A j \in images : j < i
                               /\ i + m <= Len(seg)
                               /\ \A j \in 1..m :
                                     seg[i + j] =
                                         BulletLineOf(step.ingredients[j])

\* C12's case: of two steps the first has a map entry whose file is not an
\* image, the second an entry whose file is a picture, and a step has
\* ingredients; the section has been emitted with the second step's image
C12_Witness ==
    /\ fn = "add_steps_section"
    /\ called
    /\ Len(arg.recipe.steps) = 2
    /\ {1, 2} \subseteq DOMAIN arg.recipe_images
    /\ arg.recipe_images[1] \in DOMAIN disk
    /\ disk[arg.recipe_images[1]] = Garbage
    /\ ImageReadable(arg.recipe.steps[2], arg.recipe_images, disk)
    /\ arg.recipe.steps[2].ingredients # <<>>
    /\ ~IsRaise(ret)
    /\ \E i \in 1..Len(ret.v) : ret.v[i].b = "Image"

====
